---- MODULE Spec2Model ----
(***************************************************************************)
(* ClearnetCrawler (src/crawler.py): a depth-bounded breadth-first crawl   *)
(* with a robots.txt policy, a politeness delay before each page request,  *)
(* link extraction with a per-page cap, and a visited set.                 *)
(*                                                                         *)
(* The crawler is one sequential process.  pc is its position:             *)
(*   "idle"    no call is running (after __init__, or after a return)      *)
(*   "loop"    crawl(): at the head of `while queue`                       *)
(*   "robots"  crawl_url(): url marked visited, about to call is_allowed   *)
(*   "delay"   crawl_url(): allowed, about to sleep                        *)
(*   "fetch"   crawl_url(): slept, about to issue requests.get             *)
(* The target site is the environment: what a URL or an origin's           *)
(* robots.txt answers is chosen when it is first requested and stays the   *)
(* same afterwards (a static site).  DashboardSpec starts from the crawler *)
(* that the dashboard (src/app.py) constructs from its widgets.            *)
(***************************************************************************)
EXTENDS Integers, Sequences, FiniteSets, TLC

\* ------------------------------------------------------------- bounds
NPaths == 2          \* https paths on the seed host
MaxAnchors == 2      \* <a href> tags per page
MaxCfgDepth == 1     \* configured crawl_depth is drawn from 0..MaxCfgDepth
MaxCfgLimit == 2     \* configured link_limit is drawn from 1..MaxCfgLimit
MaxCalls == 1        \* top-level calls (crawl, is_allowed) on one instance
MaxRepeatCalls == 2  \* top-level calls of a client that repeats a crawl
MaxModeDepth == 9    \* mode table: crawl_depth argument from 0..MaxModeDepth
MaxModeLimit == 11   \* mode table: link_limit argument from 1..MaxModeLimit

\* ---------------------------------------------------- program constants
ExploratoryLinkFactor == 2
ExploratoryLinkCap == 20
DeepDiveDepthBonus == 2
DeepDiveDepthCap == 10
DepthSliderMin == 1      \* the dashboard's "Crawl Depth" slider
DepthSliderMax == 10
LimitSliderMin == 1      \* the dashboard's "Links Per Page" slider
LimitSliderMax == 20

\* ------------------------------------------------------------- URLs
\* A URL as urlparse sees it: scheme, netloc, path (a path number) and
\* fragment.  urlparse cuts the URL at its first '#': what follows is the
\* fragment, so the path of a parsed URL holds no '#'.
Url(s, h, p) == [scheme |-> s, netloc |-> h, path |-> p, fragment |-> ""]

\* The URL u followed by '#' and f.
WithFragment(u, f) == [u EXCEPT !.fragment = f]

\* The URL a request for u names on the wire: the fragment is not sent.
Resource(u) == [u EXCEPT !.fragment = ""]

SeedHost == "ex.test"
OtherHost == "other.test"

Urls ==
    {Url("https", SeedHost, p) : p \in 1..NPaths}
        \cup {Url("http", SeedHost, 1), Url("https", OtherHost, 1)}

Seeds == {Url("https", SeedHost, 1), Url("https", OtherHost, 1)}

\* One more page of the seed host, which only the preset sites link to.
ExtraUrl == Url("https", SeedHost, NPaths + 1)

\* urljoin(page, "/2#x"): a page of the seed host with a fragment.
FragUrl == WithFragment(Url("https", SeedHost, 2), "x")

\* urljoin(page, "http:/2") for an https page: the scheme differs from the
\* page's, so the href is taken as absolute, and it names no host.
NoHostUrl == Url("http", "", 2)

AllUrls == Urls \cup {ExtraUrl, FragUrl, NoHostUrl}

\* base_url of is_allowed: scheme://netloc, the key of robots_cache.
Origin(u) == [scheme |-> u.scheme, netloc |-> u.netloc]

Origins == {Origin(u) : u \in AllUrls}

Modes == {"exploratory", "deep_dive", "stealth", "other"}

\* The dashboard's "Research Mode" choices.
ModeChoices == {"Exploratory", "Deep Dive", "Stealth"}

\* str.lower() on the dashboard's choices: each letter is lowered, a space
\* stays a space.
Lower(str) ==
    CASE str = "Exploratory" -> "exploratory"
      [] str = "Deep Dive" -> "deep dive"
      [] str = "Stealth" -> "stealth"
      [] OTHER -> str

Min(a, b) == IF a <= b THEN a ELSE b

\* ----------------------------------------------- __init__: mode table
\* Mutant: min(.., 20) is left out.
ModeLinkLimitUncapped(m, L) ==
    IF m = "exploratory" THEN L * ExploratoryLinkFactor ELSE L

\* Mutant: the link limit is doubled in every mode.
ModeLinkLimitDoubled(m, L) == Min(L * ExploratoryLinkFactor, ExploratoryLinkCap)

ModeLinkLimit(m, L) ==
    IF m = "exploratory" THEN Min(L * ExploratoryLinkFactor, ExploratoryLinkCap)
    ELSE L

ModeCrawlDepth(m, D) ==
    IF m = "deep_dive" THEN Min(D + DeepDiveDepthBonus, DeepDiveDepthCap)
    ELSE D

ModeDelayMin(m) ==
    CASE m = "exploratory" -> 1
      [] m = "deep_dive" -> 2
      [] m = "stealth" -> 3
      [] OTHER -> 2

ModeDelayMax(m) ==
    CASE m = "exploratory" -> 3
      [] m = "deep_dive" -> 4
      [] m = "stealth" -> 7
      [] OTHER -> 4


\* ------------------------------------------------------ the target site
\* What requests.get(url) leads to in crawl_url:
\*   "ok"       status 200 and extract_content returns
\*   "non200"   a response whose status_code is not 200
\*   "neterr"   requests.get raises (transport error, timeout)
\*   "badhtml"  status 200 and a library call of extract_content raises on
\*              the markup (urljoin on an href such as "http://[")
\* anchors: the page's <a href> targets in document order, each resolved
\* by urljoin against the page's URL.
\* head: what the page's <head> holds.
\*   title                  "absent": no <title>; "empty": a <title> whose
\*                          .string is None; "text": a <title> with text
\*   description, keywords  "absent": no such <meta name=...>; "bare": the
\*                          tag is there without a content attribute;
\*                          "text": the tag has a content attribute
AnchorSeqs == UNION {[1..n -> Urls] : n \in 0..MaxAnchors}

HtmlHead(t, d, k) == [title |-> t, description |-> d, keywords |-> k]

FullHead == HtmlHead("text", "text", "text")

NoHead == HtmlHead("absent", "absent", "absent")

UnknownPage == [kind |-> "unknown", anchors |-> <<>>, head |-> NoHead]

Page(anchors, head) == [kind |-> "ok", anchors |-> anchors, head |-> head]

OkPage(anchors) == Page(anchors, FullHead)

NotFound == [kind |-> "non200", anchors |-> <<>>, head |-> NoHead]

NetErr == [kind |-> "neterr", anchors |-> <<>>, head |-> NoHead]

Responses ==
    {OkPage(a) : a \in AnchorSeqs}
        \cup {[kind |-> k, anchors |-> <<>>, head |-> NoHead] :
                 k \in {"non200", "neterr", "badhtml"}}

\* Nothing of the site is fixed before it is requested.
OpenSite == [u \in AllUrls |-> UnknownPage]

\* The site of the BFS scenario: the seed S links to A and B, A links to C.
BfsSite ==
    [u \in AllUrls |->
        CASE u = Url("https", SeedHost, 1) ->
                OkPage(<<Url("https", SeedHost, 2), Url("http", SeedHost, 1)>>)
          [] u = Url("https", SeedHost, 2) -> OkPage(<<ExtraUrl>>)
          [] OTHER -> UnknownPage]

\* The site of the link scenario: the seed links to a fragment URL of its
\* own host, to a URL without a host and to another host; the page behind
\* the fragment URL links back to the seed.
LinkSite ==
    [u \in AllUrls |->
        CASE u = Url("https", SeedHost, 1) ->
                OkPage(<<FragUrl, NoHostUrl, Url("https", OtherHost, 1)>>)
          [] u = Url("https", SeedHost, 2) -> OkPage(<<Url("https", SeedHost, 1)>>)
          [] u = NoHostUrl -> NetErr
          [] OTHER -> NotFound]

\* The site of the link-limit scenario: the seed holds three internal links
\* A, B, C and one external link, every internal page answers 200.
ScenarioSite ==
    [u \in AllUrls |->
        CASE u = Url("https", SeedHost, 1) ->
                OkPage(<<Url("https", SeedHost, 2), Url("https", OtherHost, 1),
                         Url("http", SeedHost, 1), ExtraUrl>>)
          [] u = Url("https", SeedHost, 2) -> OkPage(<<ExtraUrl>>)
          [] u = Url("http", SeedHost, 1) -> OkPage(<<>>)
          [] u = ExtraUrl -> OkPage(<<>>)
          [] OTHER -> NotFound]

\* The site of the metadata scenario: the seed has neither a title nor meta
\* tags; A has an empty title and a description tag without content; B has
\* a keywords tag without content.
HeadSite ==
    [u \in AllUrls |->
        CASE u = Url("https", SeedHost, 1) ->
                Page(<<Url("https", SeedHost, 2), Url("http", SeedHost, 1)>>, NoHead)
          [] u = Url("https", SeedHost, 2) -> Page(<<>>, HtmlHead("empty", "bare", "absent"))
          [] u = Url("http", SeedHost, 1) -> Page(<<>>, HtmlHead("text", "absent", "bare"))
          [] OTHER -> NotFound]

Sites == {OpenSite, BfsSite, LinkSite, ScenarioSite, HeadSite}

\* What RobotFileParser.read() leads to for an origin's /robots.txt:
\*   "error"         urlopen or the decoding raises (URLError, timeout, bad bytes)
\*   "http_401_403"  HTTPError 401/403: read() sets disallow_all
\*   "http_4xx"      another 4xx: read() sets allow_all
\*   "http_5xx"      HTTPError >= 500: read() returns with nothing parsed
\*   "parsed"        a file was parsed; disallow holds the URLs its rules
\*                   deny to the crawler's user agent
UnknownRobots == [state |-> "unknown", disallow |-> {}]

UrlsOf(o) == {u \in Urls : Origin(u) = o}

\* An origin without a host has no robots.txt to ask for: urlopen raises
\* URLError (no host given).
RobotsOutcomes(o) ==
    IF o.netloc = "" THEN {[state |-> "error", disallow |-> {}]}
    ELSE {[state |-> s, disallow |-> {}] :
            s \in {"error", "http_401_403", "http_4xx", "http_5xx"}}
            \cup {[state |-> "parsed", disallow |-> D] : D \in SUBSET UrlsOf(o)}

\* ------------------------------------------------------------- state
VARIABLES
    respect_robots, crawl_depth, link_limit, mode, delay_min, delay_max,
    arg_crawl_depth, arg_link_limit,    \* the arguments __init__ was given
    call_budget,    \* top-level calls the client makes on this instance
    robots_cache,   \* self.robots_cache: origin -> parser state
    visited_urls,   \* self.visited_urls
    results,        \* crawl(): results, url -> page data
    queue,          \* crawl(): queue of [url, depth]
    cur,            \* crawl(): the (url, depth) popped last
    pc,
    returned,       \* the value the last crawl() call returned
    history,        \* the crawl() calls that returned: seed and value
    last_allowed,   \* the last is_allowed call: url, result, what it read
    delay,          \* crawl_url(): the delay slept before the pending request
    calls,          \* top-level calls made so far
    site,           \* environment: url -> response, once served
    robots_txt,     \* environment: origin -> robots.txt outcome, once served
    robots_reads,   \* environment: origin -> robots.txt requests received
    log             \* the steps and requests of the current crawl() call

config ==
    <<respect_robots, crawl_depth, link_limit, mode, delay_min, delay_max,
      arg_crawl_depth, arg_link_limit, call_budget>>

vars ==
    <<respect_robots, crawl_depth, link_limit, mode, delay_min, delay_max,
      arg_crawl_depth, arg_link_limit, call_budget,
      robots_cache, visited_urls, results, queue, cur, pc, returned, history,
      last_allowed, delay, calls, site, robots_txt, robots_reads, log>>

EmptyMap == [u \in {} |-> UnknownPage]

NoItem == [url |-> Url("", "", 0), depth |-> 0]

NoCall == [url |-> Url("", "", 0), result |-> TRUE, read |-> "none"]

Event(op, u, d) == [op |-> op, url |-> u, depth |-> d]

\* __init__(respect_robots, crawl_depth, link_limit, mode) with the mode
\* argument drawn from Ms, the depth argument from Ds and the limit
\* argument from Ls, in front of a site of Ss, for a client that makes
\* `budget` calls.
ConstructWith(Ms, Ds, Ls, Ss, budget) ==
    /\ respect_robots \in BOOLEAN
    /\ mode \in Ms
    /\ arg_crawl_depth \in Ds
    /\ arg_link_limit \in Ls
    /\ call_budget = budget
    /\ crawl_depth = ModeCrawlDepth(mode, arg_crawl_depth)
    /\ link_limit = ModeLinkLimit(mode, arg_link_limit)
    /\ delay_min = ModeDelayMin(mode)
    /\ delay_max = ModeDelayMax(mode)
    /\ robots_cache = [o \in {} |-> UnknownRobots]
    /\ visited_urls = {}
    /\ results = EmptyMap
    /\ queue = <<>>
    /\ cur = NoItem
    /\ pc = "idle"
    /\ returned = EmptyMap
    /\ history = <<>>
    /\ last_allowed = NoCall
    /\ delay = 0
    /\ calls = 0
    /\ site \in Ss
    /\ robots_txt = [o \in Origins |-> UnknownRobots]
    /\ robots_reads = [o \in Origins |-> 0]
    /\ log = <<>>

Construct(Ds, Ls, Ss, budget) == ConstructWith(Modes, Ds, Ls, Ss, budget)

Init == Construct(0..MaxCfgDepth, 1..MaxCfgLimit, Sites, MaxCalls)

\* ------------------------------------------------------- is_allowed
\* RobotFileParser.can_fetch on a parser that read() has returned from.
CanFetch(rp, u) ==
    CASE rp.state = "http_401_403" -> FALSE    \* disallow_all
      [] rp.state = "http_4xx" -> TRUE         \* allow_all
      [] rp.state = "http_5xx" -> FALSE        \* last_checked is still 0
      [] OTHER -> Resource(u) \notin rp.disallow   \* a rule names no fragment

\* The robots.txt outcome the site gives if is_allowed(u) asks for it.
RobotsChoices(u) ==
    IF robots_txt[Origin(u)] = UnknownRobots THEN RobotsOutcomes(Origin(u))
    ELSE {robots_txt[Origin(u)]}

\* self.robots_cache[base_url] = rp
CachePut(o, rp) ==
    [x \in DOMAIN robots_cache \cup {o} |-> IF x = o THEN rp ELSE robots_cache[x]]

\* Mutant: is_allowed without its `if not self.respect_robots` test.
IsAllowedNoSwitch(u, out) ==
    IF Origin(u) \in DOMAIN robots_cache
        THEN [result |-> CanFetch(robots_cache[Origin(u)], u),
              cache |-> robots_cache, fetched |-> FALSE, read |-> "cached"]
    ELSE IF out.state = "error"
        THEN [result |-> TRUE, cache |-> robots_cache, fetched |-> TRUE,
              read |-> "error"]
    ELSE [result |-> CanFetch(out, u), cache |-> CachePut(Origin(u), out),
          fetched |-> TRUE, read |-> out.state]

\* One run of is_allowed(u), read() ending as `out` if it is called:
\* result is the value returned, cache is self.robots_cache afterwards,
\* fetched says whether robots.txt was requested, read names what was read.
IsAllowed(u, out) ==
    IF ~respect_robots
        THEN [result |-> TRUE, cache |-> robots_cache, fetched |-> FALSE,
              read |-> "disabled"]
    ELSE IF Origin(u) \in DOMAIN robots_cache
        THEN [result |-> CanFetch(robots_cache[Origin(u)], u),
              cache |-> robots_cache, fetched |-> FALSE, read |-> "cached"]
    ELSE IF out.state = "error"
        THEN [result |-> TRUE, cache |-> robots_cache, fetched |-> TRUE,
              read |-> "error"]
    ELSE [result |-> CanFetch(out, u), cache |-> CachePut(Origin(u), out),
          fetched |-> TRUE, read |-> out.state]

\* The effect of one is_allowed(u) call on the crawler and on the site.
IsAllowedCall(u, out) ==
    LET run == IsAllowed(u, out)
    IN  /\ robots_cache' = run.cache
        /\ last_allowed' = [url |-> u, result |-> run.result, read |-> run.read]
        /\ robots_txt' =
             IF run.fetched THEN [robots_txt EXCEPT ![Origin(u)] = out]
             ELSE robots_txt
        /\ robots_reads' =
             IF run.fetched THEN [robots_reads EXCEPT ![Origin(u)] = @ + 1]
             ELSE robots_reads

\* A direct call of is_allowed(u) while no crawl is running.
Query(u) ==
    /\ pc = "idle"
    /\ calls < call_budget
    /\ calls' = calls + 1
    /\ \E out \in RobotsChoices(u) : IsAllowedCall(u, out)
    /\ UNCHANGED <<config, visited_urls, results, queue, cur, pc, returned,
                   history, delay, site, log>>


\* --------------------------------------------------- extract_content
\* '#' in urlparse(link).path: the path is what urlparse left in front of
\* the first '#', whatever the fragment is.
HashInPath(link) == FALSE

\* The filter of the link loop: same netloc as the page (or none), an http
\* or https scheme, and no '#' in the parsed path.
IsInternal(base, link) ==
    /\ link.netloc = base.netloc \/ link.netloc = ""
    /\ link.scheme \in {"http", "https"}
    /\ ~HashInPath(link)

\* The loop over soup.find_all('a', href=True): links.append in document order.
RECURSIVE CollectLinks(_, _)
CollectLinks(base, anchors) ==
    IF anchors = <<>> THEN <<>>
    ELSE (IF IsInternal(base, Head(anchors)) THEN <<Head(anchors)>> ELSE <<>>)
            \o CollectLinks(base, Tail(anchors))

\* Mutant: links[:n + 1]
TruncateOneMore(links, n) == SubSeq(links, 1, Min(n + 1, Len(links)))

\* links[:n]
Truncate(links, n) == SubSeq(links, 1, Min(n, Len(links)))

\* data['links'] of extract_content(url, html)
ExtractLinks(base, anchors) == Truncate(CollectLinks(base, anchors), link_limit)

\* Python's None
None == "<None>"

\* soup.title.string if soup.title else "No title"
Title(head) ==
    CASE head.title = "absent" -> "No title"
      [] head.title = "empty" -> None
      [] OTHER -> head.title

\* soup.find('meta', attrs={'name': n})['content'] if soup.find(...) else ""
\* for a tag that is absent or has a content attribute.
MetaContent(tag) == IF tag = "absent" THEN "" ELSE tag

\* extract_content raises: urljoin rejects an href (line 88), or a meta tag
\* that was found has no 'content' key (KeyError, lines 112-113).
ExtractRaises(resp) ==
    \/ resp.kind = "badhtml"
    \/ resp.head.description = "bare"
    \/ resp.head.keywords = "bare"

\* The dict extract_content(url, html) returns: its links and metadata.
PageData(base, resp) ==
    [links |-> ExtractLinks(base, resp.anchors),
     metadata |-> [title |-> Title(resp.head),
                   description |-> MetaContent(resp.head.description),
                   keywords |-> MetaContent(resp.head.keywords)]]

\* ------------------------------------------------------------ crawl
\* Mutant: crawl() does not reset self.visited_urls.
ResetVisitedKept == visited_urls

\* self.visited_urls = set()
ResetVisited == {}

\* crawl(seed_url) up to the first test of `while queue`.
Crawl(seed) ==
    /\ pc = "idle"
    /\ calls < call_budget
    /\ calls' = calls + 1
    /\ visited_urls' = ResetVisited
    /\ results' = EmptyMap
    /\ queue' = <<[url |-> seed, depth |-> 0]>>
    /\ cur' = NoItem
    /\ pc' = "loop"
    /\ log' = <<Event("push", seed, 0)>>
    /\ UNCHANGED <<config, robots_cache, returned, history, last_allowed, delay, site,
                   robots_txt, robots_reads>>

\* Mutant: queue.pop() takes the item appended last.
PopLast(q) == [item |-> q[Len(q)], rest |-> SubSeq(q, 1, Len(q) - 1)]

\* url, depth = queue.pop(0)
Pop(q) == [item |-> Head(q), rest |-> Tail(q)]

\* crawl(): `if url in self.visited_urls or depth > self.crawl_depth: continue`
LoopSkips(item) == item.url \in visited_urls \/ item.depth > crawl_depth

\* Mutant: `depth >= self.crawl_depth`
CrawlUrlSkipsAtBound(item) ==
    item.depth >= crawl_depth \/ item.url \in visited_urls

\* crawl_url(): `if depth > self.crawl_depth or url in self.visited_urls: return {}`
CrawlUrlSkips(item) == item.depth > crawl_depth \/ item.url \in visited_urls

\* Mutant: the URL is never marked visited.
MarkVisitedNever(u) == visited_urls

\* self.visited_urls.add(url)
MarkVisited(u) == visited_urls \cup {u}

\* One pop of the loop: the skip test, then crawl_url up to
\* self.visited_urls.add(url).
Dequeue ==
    /\ pc = "loop"
    /\ queue # <<>>
    /\ LET item == Pop(queue).item
       IN  /\ queue' = Pop(queue).rest
           /\ cur' = item
           /\ IF LoopSkips(item) \/ CrawlUrlSkips(item)
                THEN /\ pc' = "loop"
                     /\ visited_urls' = visited_urls
                     /\ log' = log \o <<Event("skip", item.url, item.depth)>>
                ELSE /\ pc' = "robots"
                     /\ visited_urls' = MarkVisited(item.url)
                     /\ log' = log \o <<Event("visit", item.url, item.depth)>>
    /\ UNCHANGED <<config, robots_cache, results, returned, history, last_allowed, delay,
                   calls, site, robots_txt, robots_reads>>

\* Mutant: the answer of is_allowed is ignored.
AfterRobotsIgnored(allowed) == "delay"

\* Where crawl_url goes after is_allowed answered.
AfterRobots(allowed) == IF allowed THEN "delay" ELSE "loop"

\* crawl_url: `if not self.is_allowed(url): return {}`.
CheckRobots ==
    /\ pc = "robots"
    /\ \E out \in RobotsChoices(cur.url) :
         LET run == IsAllowed(cur.url, out)
         IN  /\ IsAllowedCall(cur.url, out)
             /\ pc' = AfterRobots(run.result)
             /\ log' = log
                  \o (IF run.fetched
                        THEN <<Event("robots_get", cur.url, cur.depth)>> ELSE <<>>)
                  \o (IF run.result
                        THEN <<>> ELSE <<Event("deny", cur.url, cur.depth)>>)
    /\ UNCHANGED <<config, visited_urls, results, queue, cur, returned, history, delay,
                   calls, site>>

\* crawl_url: delay = get_random_delay(delay_min, delay_max); time.sleep(delay).
Sleep ==
    /\ pc = "delay"
    /\ \E d \in delay_min..delay_max : delay' = d
    /\ pc' = "fetch"
    /\ log' = log \o <<Event("sleep", cur.url, cur.depth)>>
    /\ UNCHANGED <<config, robots_cache, visited_urls, results, queue, cur,
                   returned, history, last_allowed, calls, site, robots_txt, robots_reads>>

\* The responses the site may give requests.get(u).
PageChoices(u) ==
    IF site[Resource(u)] = UnknownPage THEN Responses ELSE {site[Resource(u)]}

\* response.status_code == 200
Status200(resp) == resp.kind \in {"ok", "badhtml"}

\* The dict crawl_url returns: {url: data} on success, {} on any failure.
CrawlUrlData(u, resp) ==
    IF Status200(resp) /\ ~ExtractRaises(resp)
        THEN [x \in {u} |-> PageData(u, resp)]
    ELSE EmptyMap

\* Mutant: results = data
UpdateReplaced(map, data) == data

\* results.update(data)
Update(map, data) ==
    [x \in DOMAIN map \cup DOMAIN data |-> IF x \in DOMAIN data THEN data[x] ELSE map[x]]

\* Mutant: the links are queued at the page's own depth.
PushedSameDepth(links, depth) ==
    LET NotVisited(l) == l \notin visited_urls
        new == SelectSeq(links, NotVisited)
    IN  [i \in 1..Len(new) |-> [url |-> new[i], depth |-> depth]]

\* Mutant: every link is queued, visited or not.
PushedAll(links, depth) ==
    [i \in 1..Len(links) |-> [url |-> links[i], depth |-> depth + 1]]

\* The items `for link in data[url]['links']` appends to the queue.
Pushed(links, depth) ==
    LET NotVisited(l) == l \notin visited_urls
        new == SelectSeq(links, NotVisited)
    IN  [i \in 1..Len(new) |-> [url |-> new[i], depth |-> depth + 1]]

PushEvents(items) == [i \in 1..Len(items) |-> Event("push", items[i].url, items[i].depth)]

\* Mutant: crawl_url has no `except`, an exception leaves crawl().
FetchEndsUncaught(resp) ==
    IF resp.kind = "neterr" \/ ExtractRaises(resp) THEN "raised" ELSE "loop"

\* Where crawl() is after crawl_url(url, depth): crawl_url returns on every
\* outcome (`return {}` for a non-200 status and in `except Exception`), so
\* the loop body runs to its end.
FetchEnds(resp) == "loop"

\* crawl_url from requests.get to its return, then the rest of the loop body:
\* results.update(data) and the appends to the queue.
Fetch ==
    /\ pc = "fetch"
    /\ \E resp \in PageChoices(cur.url) :
         LET data == CrawlUrlData(cur.url, resp)
             items == IF cur.url \in DOMAIN data
                        THEN Pushed(data[cur.url].links, cur.depth) ELSE <<>>
         IN  /\ site' = [site EXCEPT ![Resource(cur.url)] = resp]
             /\ results' = Update(results, data)
             /\ queue' = queue \o items
             /\ log' = log \o <<Event("get", cur.url, cur.depth)>>
                    \o (IF cur.url \in DOMAIN data
                          THEN <<Event("record", cur.url, cur.depth)>> ELSE <<>>)
                    \o PushEvents(items)
             /\ pc' = FetchEnds(resp)
    /\ delay' = 0
    /\ UNCHANGED <<config, robots_cache, visited_urls, cur, returned, history,
                   last_allowed, calls, robots_txt, robots_reads>>

\* `while queue` ends: return results.
Return ==
    /\ pc = "loop"
    /\ queue = <<>>
    /\ pc' = "idle"
    /\ returned' = results
    /\ history' = Append(history, [seed |-> log[1].url, result |-> results])
    /\ log' = log \o <<Event("return", NoItem.url, 0)>>
    /\ UNCHANGED <<config, robots_cache, visited_urls, results, queue, cur,
                   last_allowed, delay, calls, site, robots_txt, robots_reads>>

Next ==
    \/ \E seed \in Seeds : Crawl(seed)
    \/ \E u \in Urls : Query(u)
    \/ Dequeue
    \/ CheckRobots
    \/ Sleep
    \/ Fetch
    \/ Return

Spec == Init /\ [][Next]_vars

\* A running crawl() takes its next step: the loop is sequential code, and
\* each robots.txt read, sleep and page request returns.
Step == Dequeue \/ CheckRobots \/ Sleep \/ Fetch \/ Return

FairSpec == Spec /\ WF_vars(Step)

\* The crawler built with arguments up to the caps of the mode table, in
\* front of the scenario site.
InitModes == Construct(0..MaxModeDepth, 1..MaxModeLimit, {ScenarioSite}, MaxCalls)

ModeSpec == InitModes /\ [][Next]_vars

\* The crawler the dashboard builds on "Start Research": the mode is the
\* chosen label lowered, depth and limit are the sliders' values.
InitDashboard ==
    ConstructWith({Lower(c) : c \in ModeChoices},
                  DepthSliderMin..DepthSliderMax, LimitSliderMin..LimitSliderMax,
                  {ScenarioSite}, MaxCalls)

DashboardSpec == InitDashboard /\ [][Next]_vars

\* The crawler of Init in front of a site whose pages are all preset, with
\* a client that makes MaxRepeatCalls calls on it.
RepeatSites == {LinkSite, ScenarioSite, HeadSite}

InitRepeat == Construct(0..MaxCfgDepth, 1..MaxCfgLimit, RepeatSites, MaxRepeatCalls)

RepeatSpec == InitRepeat /\ [][Next]_vars


\* ================================================================ claims
At(op) == {i \in DOMAIN log : log[i].op = op}

AtFor(op, u) == {i \in DOMAIN log : log[i].op = op /\ log[i].url = u}

Dequeues == At("visit") \cup At("skip")

Range(f) == {f[i] : i \in DOMAIN f}

Crawled == pc = "idle" /\ calls > 0 /\ log # <<>>

\* The response the site gave to the request for u.
Served(u) == site[Resource(u)]

\* C1 (visited-once): within one crawl() call no URL is requested with
\* requests.get more than once, and none is robots-checked or slept for
\* more than once either, however often it was pushed.
C1_VisitedOnce ==
    \A u \in AllUrls :
        /\ Cardinality(AtFor("get", u)) <= 1
        /\ Cardinality(AtFor("visit", u)) <= 1
        /\ Cardinality(AtFor("sleep", u)) <= 1

\* A crawl has returned in which some URL sat in the queue twice, was
\* requested once and skipped at its second pop.
C1_Witness ==
    /\ Crawled
    /\ \E u \in Urls :
        /\ Cardinality(AtFor("push", u)) >= 2
        /\ Cardinality(AtFor("get", u)) = 1
        /\ AtFor("skip", u) # {}

\* C2 (depth bound): nothing dequeued deeper than crawl_depth is marked
\* visited, robots-checked, slept for, requested or recorded; every result
\* key was recorded at a depth <= crawl_depth, and is the seed at depth 0 or
\* a recorded link of a result page recorded one level higher.
C2_DepthBound ==
    /\ \A i \in DOMAIN log :
         log[i].op \in {"visit", "robots_get", "deny", "sleep", "get", "record"}
            => log[i].depth <= crawl_depth
    /\ \A u \in DOMAIN results :
         \E i \in AtFor("record", u) :
            /\ log[i].depth <= crawl_depth
            /\ IF log[i].depth = 0 THEN u = log[1].url
               ELSE \E j \in At("record") :
                        /\ j < i
                        /\ log[j].depth = log[i].depth - 1
                        /\ log[j].url \in DOMAIN results
                        /\ u \in Range(results[log[j].url].links)

\* A crawl has returned that recorded a page at depth crawl_depth and
\* skipped an unvisited URL because it was deeper than crawl_depth.
C2_Witness ==
    /\ Crawled
    /\ \E i \in At("record") : log[i].depth = crawl_depth /\ crawl_depth > 0
    /\ \E i \in At("skip") :
         log[i].depth > crawl_depth /\ log[i].url \notin visited_urls


\* The positions of the events in S, in log order.
RECURSIVE Ordered(_)
Ordered(S) ==
    IF S = {} THEN <<>>
    ELSE LET m == CHOOSE x \in S : \A y \in S : x <= y
         IN  <<m>> \o Ordered(S \ {m})

\* The last dequeue (visit or skip) before position i; 0 if there is none.
LastDequeue(i) ==
    LET before == {j \in Dequeues : j < i}
    IN  IF before = {} THEN 0 ELSE CHOOSE x \in before : \A y \in before : y <= x

\* C3 (BFS order): items are dequeued in the order they were pushed; the
\* depths of the dequeued items never decrease; every push made while a
\* page is expanded has that page's depth plus one; and every request,
\* record and push belongs to the URL dequeued last, so a URL is fully
\* processed before the next item, of the same or the next depth, is popped.
C3_BfsOrder ==
    LET pushes == Ordered(At("push"))
        pops == Ordered(Dequeues)
    IN  /\ Len(pops) <= Len(pushes)
        /\ \A k \in DOMAIN pops :
             /\ log[pops[k]].url = log[pushes[k]].url
             /\ log[pops[k]].depth = log[pushes[k]].depth
             /\ pushes[k] < pops[k]
        /\ \A i, j \in Dequeues : i < j => log[i].depth <= log[j].depth
        /\ \A i \in DOMAIN log :
             log[i].op \in {"robots_get", "deny", "sleep", "get", "record"}
                => /\ LastDequeue(i) # 0
                   /\ log[LastDequeue(i)].op = "visit"
                   /\ log[LastDequeue(i)].url = log[i].url
                   /\ log[LastDequeue(i)].depth = log[i].depth
        /\ \A i \in At("push") :
             IF i = 1 THEN log[i].depth = 0
             ELSE /\ LastDequeue(i) # 0
                  /\ log[LastDequeue(i)].op = "visit"
                  /\ log[i].depth = log[LastDequeue(i)].depth + 1

\* The BFS scenario has run to its end: the seed S, then A and B at depth 1,
\* then C at depth 2 were visited and requested, in this order.
C3_Witness ==
    /\ Crawled
    /\ site[Url("https", SeedHost, 1)] = BfsSite[Url("https", SeedHost, 1)]
    /\ site[Url("https", SeedHost, 2)] = BfsSite[Url("https", SeedHost, 2)]
    /\ LET gets == Ordered(At("get"))
       IN  /\ Len(gets) = 4
           /\ log[gets[1]].url = Url("https", SeedHost, 1) /\ log[gets[1]].depth = 0
           /\ log[gets[2]].url = Url("https", SeedHost, 2) /\ log[gets[2]].depth = 1
           /\ log[gets[3]].url = Url("http", SeedHost, 1) /\ log[gets[3]].depth = 1
           /\ log[gets[4]].url = ExtraUrl /\ log[gets[4]].depth = 2


\* The page requests that failed: a non-200 status, a transport error, or
\* an extraction error.
FailedGets ==
    {i \in At("get") :
        Served(log[i].url).kind # "ok" \/ ExtractRaises(Served(log[i].url))}

C5_MarkBeforeFetch ==
    /\ \A i \in DOMAIN log :
         log[i].op \in {"robots_get", "sleep", "get"}
            => \E j \in AtFor("visit", log[i].url) : j < i
    /\ \A i \in At("visit") : log[i].url \in visited_urls
    /\ pc \in {"robots", "delay", "fetch"} => cur.url \in visited_urls
    /\ \A i \in At("get") :
         Served(log[i].url).kind = "non200"
            => /\ log[i].url \notin DOMAIN results
               /\ log[i].url \in visited_urls
               /\ Cardinality(AtFor("get", log[i].url)) = 1

\* A crawl has returned in which a URL answered 404, and a page recorded
\* after that links to it: the URL was not pushed or requested again.
C5_Witness ==
    /\ Crawled
    /\ \E i \in At("get") : \E j \in At("record") :
         /\ i < j
         /\ Served(log[i].url).kind = "non200"
         /\ log[i].url \in Range(results[log[j].url].links)
         /\ \A k \in AtFor("push", log[i].url) : k < i
         /\ log[i].url \in visited_urls \ DOMAIN returned

\* C6 (robots deny): a URL that is_allowed answered False for is never
\* slept for, requested or recorded, has no result entry, pushes nothing,
\* and the next step of the loop is the next pop (or the return).
C6_RobotsDeny ==
    /\ \A i \in At("deny") :
         /\ AtFor("sleep", log[i].url) = {}
         /\ AtFor("get", log[i].url) = {}
         /\ AtFor("record", log[i].url) = {}
         /\ log[i].url \notin DOMAIN results
         /\ i < Len(log) => log[i + 1].op \in {"visit", "skip", "return"}
    /\ pc \in {"delay", "fetch"} => last_allowed.url = cur.url /\ last_allowed.result
    /\ \A i \in At("sleep") \cup At("get") : AtFor("deny", log[i].url) = {}

\* A crawl has returned in which robots.txt denied one URL and the URL
\* popped after it was requested.
C6_Witness ==
    /\ Crawled
    /\ \E i \in At("deny") : \E j \in At("get") :
         /\ i < j
         /\ log[i].url # log[j].url
         /\ log[i].url \in visited_urls


\* C7 (fail-open robots), as claimed: whenever the robots.txt request of an
\* is_allowed call fails, by an error raised or by a server error status,
\* the call returns True.
C7_FailOpenRobots ==
    last_allowed.read \in {"error", "http_5xx"} => last_allowed.result

\* C8 (robots cache), as claimed: over the lifetime of the crawler no
\* origin's robots.txt is requested more than once, whatever the first
\* request ended with.
C8_RobotsFetchedOnce == \A o \in Origins : robots_reads[o] <= 1

\* C9 (policy disabled): with respect_robots false every is_allowed call
\* returns True, no robots.txt is ever requested, nothing is denied, and
\* robots_cache stays as __init__ left it (empty).
C9_PolicyDisabled ==
    ~respect_robots =>
        /\ last_allowed.result
        /\ last_allowed.read \in {"none", "disabled"}
        /\ DOMAIN robots_cache = {}
        /\ \A o \in Origins : robots_reads[o] = 0 /\ robots_txt[o] = UnknownRobots
        /\ At("robots_get") = {} /\ At("deny") = {}

\* A crawler built with respect_robots false has finished a crawl in which
\* is_allowed was called for two URLs, both then requested.
C9_Witness ==
    /\ ~respect_robots
    /\ Crawled
    /\ Cardinality(At("get")) >= 2
    /\ last_allowed.read = "disabled"

\* The anchors of a page that the link filter keeps, in document order.
Kept(base, anchors) ==
    LET Keep(l) == IsInternal(base, l) IN SelectSeq(anchors, Keep)

\* The pushes that directly follow position i of the log.
RECURSIVE PushRun(_)
PushRun(i) ==
    IF i + 1 \in At("push") THEN 1 + PushRun(i + 1) ELSE 0

\* C10 (link limit): the link list recorded for a page has at most
\* link_limit entries and is the first link_limit kept anchors of the page
\* in document order (all of them when there are fewer); and recording a
\* page is followed by at most link_limit pushes.
C10_LinkLimit ==
    /\ \A u \in DOMAIN results :
         LET kept == Kept(u, Served(u).anchors)
             links == results[u].links
         IN  /\ Len(links) <= link_limit
             /\ Len(links) = Min(link_limit, Len(kept))
             /\ \A i \in DOMAIN links : links[i] = kept[i]
    /\ \A i \in At("record") : PushRun(i) <= link_limit
    /\ \A i \in At("push") : i = 1 \/ log[i - 1].op \in {"record", "push"}

\* A crawl has returned that recorded a page with more kept anchors than
\* link_limit, cut to the first link_limit of them, all of which it pushed.
C10_Witness ==
    /\ Crawled
    /\ \E i \in At("record") :
         /\ Len(Kept(log[i].url, Served(log[i].url).anchors)) > link_limit
         /\ Len(results[log[i].url].links) = link_limit
         /\ PushRun(i) = link_limit

\* C11 (internal-only links), as claimed: every link recorded for a result
\* page has an http or https scheme, the host of the page's own URL, and no
\* fragment.
C11_InternalLinks ==
    \A u \in DOMAIN results :
        \A l \in Range(results[u].links) :
            /\ l.scheme \in {"http", "https"}
            /\ l.netloc = u.netloc
            /\ l.fragment = ""

\* C12 (no external traversal), as claimed: every URL pushed, marked
\* visited, requested or recorded during crawl(seed) has the seed's host.
C12_SameHost ==
    \A i \in DOMAIN log :
        log[i].op \in {"push", "visit", "get", "record"}
            => log[i].url.netloc = log[1].url.netloc

\* The link-limit scenario has run to its end: crawl(S) on the scenario
\* site, robots.txt honoured and denying nothing.
ScenarioRun ==
    /\ Crawled
    /\ site = ScenarioSite
    /\ log[1].url = Url("https", SeedHost, 1)
    /\ respect_robots
    /\ At("deny") = {}

\* C13 as claimed: built with crawl_depth 1, link_limit 2 and the default
\* mode "exploratory", the scenario crawl returns the seed and exactly the
\* first two internal links A and B.
C13_ScenarioAsClaimed ==
    (ScenarioRun /\ arg_crawl_depth = 1 /\ arg_link_limit = 2
        /\ mode = "exploratory")
        => DOMAIN returned =
             {Url("https", SeedHost, 1), Url("https", SeedHost, 2),
              Url("http", SeedHost, 1)}

\* C13 (scenario, amended): built with crawl_depth 1 and link_limit 2, the
\* scenario crawl returns the seed and exactly the first two internal links
\* A and B when the mode is "stealth" or unrecognised (effective link limit
\* 2); with the default mode "exploratory" the effective link limit is 4
\* and the result holds the seed and all three internal links; the
\* external link is never a result key.
C13_Scenario ==
    (ScenarioRun /\ arg_crawl_depth = 1 /\ arg_link_limit = 2) =>
        /\ mode \in {"stealth", "other"} =>
             /\ DOMAIN returned =
                  {Url("https", SeedHost, 1), Url("https", SeedHost, 2),
                   Url("http", SeedHost, 1)}
             /\ returned[Url("https", SeedHost, 1)].links =
                  <<Url("https", SeedHost, 2), Url("http", SeedHost, 1)>>
        /\ mode = "exploratory" =>
             DOMAIN returned =
                 {Url("https", SeedHost, 1), Url("https", SeedHost, 2),
                  Url("http", SeedHost, 1), ExtraUrl}
        /\ Url("https", OtherHost, 1) \notin DOMAIN returned

\* The scenario crawl of a stealth crawler built with depth 1 and limit 2
\* has returned three pages; the third internal link C was found on A at
\* depth 2 and skipped.
C13_Witness ==
    /\ ScenarioRun
    /\ arg_crawl_depth = 1 /\ arg_link_limit = 2 /\ mode = "stealth"
    /\ Cardinality(DOMAIN returned) = 3
    /\ AtFor("skip", ExtraUrl) # {}
    /\ AtFor("get", ExtraUrl) = {}

\* C14 (mode resolution): in every state, before and after any crawl() or
\* is_allowed call, the effective values are those of the mode table for
\* the arguments __init__ was given: exploratory min(2L, 20), D, 1..3;
\* deep_dive L, min(D + 2, 10), 2..4; stealth L, D, 3..7; any other mode
\* L, D, 2..4.
C14_ModeTable ==
    LET L == arg_link_limit
        D == arg_crawl_depth
        eff == <<link_limit, crawl_depth, delay_min, delay_max>>
    IN  CASE mode = "exploratory" ->
                eff = <<Min(ExploratoryLinkFactor * L, ExploratoryLinkCap), D, 1, 3>>
          [] mode = "deep_dive" ->
                eff = <<L, Min(D + DeepDiveDepthBonus, DeepDiveDepthCap), 2, 4>>
          [] mode = "stealth" -> eff = <<L, D, 3, 7>>
          [] OTHER -> eff = <<L, D, 2, 4>>

\* A crawl by an exploratory crawler has returned whose link_limit argument
\* doubled exceeds the cap: the effective limit is the cap.
C14_Witness ==
    /\ Crawled
    /\ returned # EmptyMap
    /\ mode = "exploratory"
    /\ ExploratoryLinkFactor * arg_link_limit > ExploratoryLinkCap
    /\ link_limit = ExploratoryLinkCap

\* C15 (per-call reset and idempotence): a crawl() call starts with an
\* empty visited set and an empty result, what it holds while it runs is
\* what this call marked and recorded, and two crawl() calls with the same
\* seed on one crawler return equal result maps.
C15_ResetIdempotent ==
    /\ (pc = "loop" /\ Len(log) = 1) => visited_urls = {} /\ results = EmptyMap
    /\ pc # "idle" =>
         /\ visited_urls = {log[i].url : i \in At("visit")}
         /\ DOMAIN results = {log[i].url : i \in At("record")}
    /\ \A i, j \in DOMAIN history :
         history[i].seed = history[j].seed => history[i].result = history[j].result

\* Two crawls with the same seed have returned, each with two pages or more.
C15_Witness ==
    /\ Len(history) = 2
    /\ history[1].seed = history[2].seed
    /\ Cardinality(DOMAIN history[1].result) >= 2
    /\ Cardinality(DOMAIN history[2].result) >= 2

\* The requests sent to the target site: robots.txt reads and page GETs.
Requests == At("robots_get") \cup At("get")

\* C16 (politeness delay), as claimed: every HTTP request issued during
\* crawl() is preceded by a sleep of its own, so a sleep lies between any
\* two requests and before the first one.
C16_DelayBeforeRequest ==
    \A i \in Requests :
        \E j \in At("sleep") :
            /\ j < i
            /\ \A k \in Requests : ~(j < k /\ k < i)

C18_ExtractionDegrades ==
    \A i \in At("get") :
        LET u == log[i].url
            head == Served(u).head
        IN  Status200(Served(u)) =>
                /\ u \in DOMAIN results
                /\ head.title = "absent" => results[u].metadata.title = "No title"
                /\ head.description = "absent" => results[u].metadata.description = ""
                /\ head.keywords = "absent" => results[u].metadata.keywords = ""

\* C19 (no re-enqueue), as claimed: during one crawl() call no URL is pushed
\* onto the queue more than once.
C19_NoRepush ==
    \A i, j \in At("push") : i # j => log[i].url # log[j].url

\* C20 (visited never re-queued): a URL pushed onto the queue is not in
\* visited_urls at that moment, so every push of a URL comes before the
\* URL is marked visited; a URL is marked visited at most once per call;
\* and visited_urls holds exactly the URLs marked in this call.
C20_VisitedNeverQueued ==
    /\ \A i \in At("push") : \A j \in AtFor("visit", log[i].url) : i < j
    /\ \A i, j \in At("visit") : i # j => log[i].url # log[j].url
    /\ visited_urls = {log[i].url : i \in At("visit")}

\* A crawl has returned that recorded a page with a link to another URL
\* marked visited before, and did not push that link.
C20_Witness ==
    /\ Crawled
    /\ \E i \in At("record") :
         \E l \in Range(results[log[i].url].links) :
            /\ l # log[i].url
            /\ \E j \in AtFor("visit", l) : j < i
            /\ \A k \in AtFor("push", l) : k < i

\* C21 (result accumulation): the result's keys are visited URLs at every
\* point; while a crawl() call runs no step removes a key or changes the
\* data stored for a key; and a key is recorded at most once per call.
C21_Accumulation ==
    /\ [](DOMAIN results \subseteq visited_urls)
    /\ [](\A i, j \in At("record") : i # j => log[i].url # log[j].url)
    /\ [][pc # "idle" =>
            \A u \in DOMAIN results :
                u \in DOMAIN results' /\ results'[u] = results[u]]_vars

\* A crawl has returned two pages or more, with a failed request after the
\* first page was recorded and a visited URL that is not a result key.
C21_Witness ==
    /\ Crawled
    /\ Cardinality(DOMAIN results) >= 2
    /\ \E i \in At("record") : \E j \in FailedGets : \E k \in At("record") :
         i < j /\ j < k
    /\ visited_urls \ DOMAIN results # {}

\* The recorded links of u: the edges that leave u, if u is a result page.
LinksOf(u) == IF u \in DOMAIN results THEN Range(results[u].links) ELSE {}

\* The URLs that a chain of at most k recorded links reaches from the seed.
RECURSIVE Within(_)
Within(k) ==
    IF k = 0 THEN {log[1].url}
    ELSE LET W == Within(k - 1) IN W \cup UNION {LinksOf(w) : w \in W}

\* C22 (shortest-depth visit): every URL marked visited was marked at the
\* depth that is its distance from the seed through the recorded link lists
\* of the result pages: a chain of that length reaches it and no shorter
\* chain does.
C22_ShortestDepth ==
    \A i \in At("visit") :
        /\ log[i].url \in Within(log[i].depth)
        /\ log[i].depth > 0 => log[i].url \notin Within(log[i].depth - 1)

\* A crawl has returned in which a URL was found on two chains of different
\* length, both within crawl_depth, and was visited at the shorter one.
C22_Witness ==
    /\ Crawled
    /\ \E i, j \in At("push") : \E v \in At("visit") :
         /\ log[i].url = log[j].url
         /\ log[v].url = log[i].url
         /\ log[i].depth < log[j].depth
         /\ log[j].depth <= crawl_depth
         /\ log[v].depth = log[i].depth
         /\ log[v].url \in DOMAIN results

\* robots.txt did not deny l, and the request for l was answered 200 with
\* markup that extract_content accepts.
Succeeded(l) ==
    /\ AtFor("deny", l) = {}
    /\ Served(l).kind = "ok"
    /\ ~ExtractRaises(Served(l))

\* C23 (completeness): when crawl() has returned, every recorded link of a
\* result page recorded above crawl_depth is in visited_urls, and is a key
\* of the returned map if robots.txt allowed it and its request and
\* extraction succeeded.
C23_Completeness ==
    Crawled =>
        \A i \in At("record") :
            log[i].depth < crawl_depth =>
                \A l \in Range(returned[log[i].url].links) :
                    /\ l \in visited_urls
                    /\ Succeeded(l) => l \in DOMAIN returned

\* A crawl has returned a page recorded above crawl_depth with two links:
\* one is a result key, the other was attempted and is not.
C23_Witness ==
    /\ Crawled
    /\ \E i \in At("record") :
         /\ log[i].depth < crawl_depth
         /\ \E l, m \in Range(returned[log[i].url].links) :
              /\ l # log[i].url /\ Succeeded(l) /\ l \in DOMAIN returned
              /\ m \in visited_urls \ DOMAIN returned

\* C24 (dashboard mode mapping), as claimed: the crawler built for each
\* Research Mode choice has the values of that mode's row of the mode
\* table: Exploratory min(2L, 20) and 1..3, Deep Dive min(D + 2, 10) and
\* 2..4, Stealth 3..7.
C24_DashboardModes ==
    /\ mode = Lower("Exploratory") =>
         /\ link_limit = Min(ExploratoryLinkFactor * arg_link_limit, ExploratoryLinkCap)
         /\ <<delay_min, delay_max>> = <<1, 3>>
    /\ mode = Lower("Deep Dive") =>
         /\ crawl_depth = Min(arg_crawl_depth + DeepDiveDepthBonus, DeepDiveDepthCap)
         /\ <<delay_min, delay_max>> = <<2, 4>>
    /\ mode = Lower("Stealth") => <<delay_min, delay_max>> = <<3, 7>>

====
